---- MODULE Spec2Model ----
(***************************************************************************)
(* Windscreen Frost Predictor (src/app.py).                                *)
(*                                                                         *)
(* Units.  Temperatures, dew points and wind speeds are integers in tenths *)
(* (2.9 C is 29, 10 km/h is 100); relative humidity is an integer percent; *)
(* car factors are integers in tenths (1.5 is 15); coordinates are         *)
(* integers in hundredths of a degree (51.50 is 5150).  The spread         *)
(* temp - dew_point is the exact difference of the two readings.           *)
(*                                                                         *)
(* Three specifications share the variables:                               *)
(*   SpecClassify  one observation and one car type through                *)
(*                 calculate_frost_risk and the delay scaling;             *)
(*   SpecRender    one hourly frame through the rendering pipeline         *)
(*                 (classification, scaling, 7 AM selection, headline,     *)
(*                 day cards);                                             *)
(*   Spec          the Streamlit session: every action is one run of the   *)
(*                 script, the widget handler followed by the render pass. *)
(***************************************************************************)
EXTENDS Integers, Sequences, FiniteSets, TLC

VARIABLES
    latitude, longitude, location_name,  \* st.session_state
    car_choice,                          \* the selectbox value
    messages,                            \* st.error / st.warning texts of the last run
    event,                               \* the widget that triggered the last run
    search_result,                       \* what get_coordinates_from_search returned
    lookups,                             \* the lookup services the last search called
    lat, lon, loc_name,                  \* the script's locals of lines 158-160
    fetch,                               \* outcome of the forecast request of the last run
    today,                               \* datetime.now().date() of the last run
    df_raw, df, morning_df,              \* the frames of the render pass
    headline,                            \* the "Tomorrow Morning" panel, <<>> when omitted
    cards,                               \* the day cards of cards_html
    phase,                               \* position of the run
    row, risk_cols, total_delay          \* one observation through the classifier

vars == <<latitude, longitude, location_name, car_choice, messages, event,
          search_result, lookups, lat, lon, loc_name, fetch, today,
          df_raw, df, morning_df, headline, cards, phase,
          row, risk_cols, total_delay>>

sessionVars == <<latitude, longitude, location_name, messages, event,
                 search_result, lookups, lat, lon, loc_name, fetch>>
frameVars == <<today, df_raw, df, morning_df, headline, cards>>
obsVars == <<row, risk_cols, total_delay>>

(***************************************************************************)
(* Bounds of the model.                                                    *)
(***************************************************************************)
MaxRows == 2     \* longest hourly frame of SpecRender
MaxDate == 2     \* calendar dates are 0 .. MaxDate, the clock reads 0 .. MaxDate - 1

(***************************************************************************)
(* Constants of the program.                                               *)
(***************************************************************************)
CAR_TYPES ==
    ("Compact / Hatchback" :> 8) @@ ("Sedan / Saloon" :> 10) @@
    ("SUV / Crossover" :> 12) @@ ("Van / Truck" :> 15)

CarNames == DOMAIN CAR_TYPES

(***************************************************************************)
(* calculate_frost_risk                                                    *)
(***************************************************************************)
Assessment(risk, bg, fg, minutes, condition) ==
    [risk |-> risk, bg_color |-> bg, text_color |-> fg,
     base_minutes |-> minutes, condition |-> condition]

NoRisk == Assessment("None", "#e6f4ea", "green", 0, "Clear")

MutFrostSevereAtMinusFive(r) ==
    LET temp == r.temp_c
        spread == r.temp_c - r.dew_point_c
    IN  IF temp <= 30
        THEN IF spread < 20 \/ (temp <= 0 /\ r.humidity > 80)
             THEN IF temp <= -50
                  THEN Assessment("Severe Ice", "#fce8e6", "darkred", 15, "Hard Ice")
                  ELSE IF temp <= 0
                  THEN Assessment("Frost/Ice", "#fce8e6", "red", 10, "Icy")
                  ELSE Assessment("Light Frost", "#fef7e0", "orange", 5, "Frosty")
             ELSE NoRisk
        ELSE IF spread < 25 /\ r.humidity > 90 /\ r.wind_speed_kmh < 100
             THEN Assessment("Fog", "#f1f3f4", "gray", 2, "Foggy")
             ELSE NoRisk

MutFogHumidityInclusive(r) ==
    LET temp == r.temp_c
        spread == r.temp_c - r.dew_point_c
    IN  IF temp <= 30
        THEN IF spread < 20 \/ (temp <= 0 /\ r.humidity > 80)
             THEN IF temp < -50
                  THEN Assessment("Severe Ice", "#fce8e6", "darkred", 15, "Hard Ice")
                  ELSE IF temp <= 0
                  THEN Assessment("Frost/Ice", "#fce8e6", "red", 10, "Icy")
                  ELSE Assessment("Light Frost", "#fef7e0", "orange", 5, "Frosty")
             ELSE NoRisk
        ELSE IF spread < 25 /\ r.humidity >= 90 /\ r.wind_speed_kmh < 100
             THEN Assessment("Fog", "#f1f3f4", "gray", 2, "Foggy")
             ELSE NoRisk

MutFogAfterFailedFrostGuard(r) ==
    LET temp == r.temp_c
        spread == r.temp_c - r.dew_point_c
        fog == IF spread < 25 /\ r.humidity > 90 /\ r.wind_speed_kmh < 100
               THEN Assessment("Fog", "#f1f3f4", "gray", 2, "Foggy")
               ELSE NoRisk
    IN  IF temp <= 30 /\ (spread < 20 \/ (temp <= 0 /\ r.humidity > 80))
        THEN IF temp < -50
             THEN Assessment("Severe Ice", "#fce8e6", "darkred", 15, "Hard Ice")
             ELSE IF temp <= 0
             THEN Assessment("Frost/Ice", "#fce8e6", "red", 10, "Icy")
             ELSE Assessment("Light Frost", "#fef7e0", "orange", 5, "Frosty")
        ELSE fog

MutFrostIceKeepsSevereMinutes(r) ==
    LET temp == r.temp_c
        spread == r.temp_c - r.dew_point_c
    IN  IF temp <= 30
        THEN IF spread < 20 \/ (temp <= 0 /\ r.humidity > 80)
             THEN IF temp < -50
                  THEN Assessment("Severe Ice", "#fce8e6", "darkred", 15, "Hard Ice")
                  ELSE IF temp <= 0
                  THEN Assessment("Frost/Ice", "#fce8e6", "red", 15, "Icy")
                  ELSE Assessment("Light Frost", "#fef7e0", "orange", 5, "Frosty")
             ELSE NoRisk
        ELSE IF spread < 25 /\ r.humidity > 90 /\ r.wind_speed_kmh < 100
             THEN Assessment("Fog", "#f1f3f4", "gray", 2, "Foggy")
             ELSE NoRisk

\* The elif of line 108 belongs to the outer "if temp <= 3.0": a row that
\* enters the outer branch and fails the guard of line 89 keeps the defaults.
calculate_frost_risk(r) ==
    LET temp == r.temp_c
        spread == r.temp_c - r.dew_point_c
    IN  IF temp <= 30
        THEN IF spread < 20 \/ (temp <= 0 /\ r.humidity > 80)
             THEN IF temp < -50
                  THEN Assessment("Severe Ice", "#fce8e6", "darkred", 15, "Hard Ice")
                  ELSE IF temp <= 0
                  THEN Assessment("Frost/Ice", "#fce8e6", "red", 10, "Icy")
                  ELSE Assessment("Light Frost", "#fef7e0", "orange", 5, "Frosty")
             ELSE NoRisk
        ELSE IF spread < 25 /\ r.humidity > 90 /\ r.wind_speed_kmh < 100
             THEN Assessment("Fog", "#f1f3f4", "gray", 2, "Foggy")
             ELSE NoRisk

(***************************************************************************)
(* Delay scaling: (base_minutes * car_factor).round().astype(int).         *)
(* Series.round is numpy's rounding: an exact half goes to the even        *)
(* neighbour.  The argument is the product in tenths; a half only arises   *)
(* with factor 1.5, which is exact in binary, and the other products are   *)
(* at least a tenth away from a half, so the exact product decides.        *)
(***************************************************************************)
MutRoundHalfUp(p) == (p + 5) \div 10

round(p) ==
    LET q == p \div 10
        t == p % 10
    IN  IF t < 5 THEN q
        ELSE IF t > 5 THEN q + 1
        ELSE IF q % 2 = 0 THEN q ELSE q + 1

scaled_delay(base_minutes, car) == round(base_minutes * CAR_TYPES[car])

(***************************************************************************)
(* Observations of SpecClassify.                                           *)
(***************************************************************************)
Temps == {-60, -51, -50, -49, -1, 0, 1, 29, 30, 31, 50}
Spreads == {-5, 19, 20, 21, 24, 25, 50}
Humidities == {50, 80, 81, 90, 91, 95}
Winds == {0, 50, 99, 100, 200}

Observations ==
    {[temp_c |-> t, dew_point_c |-> t - s, humidity |-> h, wind_speed_kmh |-> w] :
        t \in Temps, s \in Spreads, h \in Humidities, w \in Winds}

Pending == Assessment("", "", "", 0, "")
NoRow == [temp_c |-> 0, dew_point_c |-> 0, humidity |-> 0, wind_speed_kmh |-> 0]

(***************************************************************************)
(* The render pass, lines 166-232.  A raw row is one hour of the forecast: *)
(* its time (date and hour of day) and the four readings; weather_code is  *)
(* fetched but never read.                                                 *)
(***************************************************************************)
\* lines 166-173: the risk columns, date, hour and total_delay of every row
classify_frame(frame, car) ==
    [i \in DOMAIN frame |->
        LET a == calculate_frost_risk(frame[i])
        IN  [index |-> i, date |-> frame[i].date, hour |-> frame[i].hour,
             temp_c |-> frame[i].temp_c, risk |-> a.risk,
             bg_color |-> a.bg_color, text_color |-> a.text_color,
             base_minutes |-> a.base_minutes, condition |-> a.condition,
             total_delay |-> scaled_delay(a.base_minutes, car)]]

IsMorning(r) == r.hour = 7

MutMorningFromSeven(d) == SelectSeq(d, LAMBDA r : r.hour >= 7)

\* line 175
morning_rows(d) == SelectSeq(d, IsMorning)

\* line 181
tomorrow_row(m, now) == SelectSeq(m, LAMBDA r : r.date = now + 1)

MutHeadlineDelayNotNegative(m, now) ==
    LET t == tomorrow_row(m, now)
    IN  IF t = <<>> THEN <<>>
        ELSE <<[text |-> IF t[1].total_delay >= 0
                         THEN "Plan for delay" ELSE "Clear Windscreen Expected",
                index |-> t[1].index, delay |-> t[1].total_delay,
                condition |-> t[1].condition, temp_c |-> t[1].temp_c,
                risk |-> t[1].risk]>>

\* lines 183-197: the panel is built from the first row of tomorrow_row
headline_panel(m, now) ==
    LET t == tomorrow_row(m, now)
    IN  IF t = <<>> THEN <<>>
        ELSE <<[text |-> IF t[1].total_delay > 0
                         THEN "Plan for delay" ELSE "Clear Windscreen Expected",
                index |-> t[1].index, delay |-> t[1].total_delay,
                condition |-> t[1].condition, temp_c |-> t[1].temp_c,
                risk |-> t[1].risk]>>

\* lines 208-232: one card per row of morning_df.  Both reads of the clock
\* (lines 180 and 205) fall in the same run and are taken on the same day.
day_cards(m, now) ==
    [i \in DOMAIN m |->
        LET date_diff == m[i].date - now
        IN  [index |-> m[i].index,
             size_class |-> IF date_diff = 0 THEN "card-today"
                            ELSE IF date_diff = 1 \/ date_diff = -1
                            THEN "card-medium" ELSE "card-small",
             date |-> m[i].date, temp_c |-> m[i].temp_c, risk |-> m[i].risk,
             bg_color |-> m[i].bg_color, text_color |-> m[i].text_color,
             total_delay |-> m[i].total_delay]]

(***************************************************************************)
(* Frames of SpecRender: every sequence of at most MaxRows rows, in any    *)
(* order and with repetitions, over one reading per risk level.            *)
(***************************************************************************)
Dates == 0 .. MaxDate
Clock == 0 .. MaxDate - 1

Reading(t, d, h, w) ==
    [temp_c |-> t, dew_point_c |-> d, humidity |-> h, wind_speed_kmh |-> w]

Readings ==
    { Reading(50, 0, 60, 150),      \* mild and dry
      Reading(50, 32, 92, 80),      \* mild, saturated, calm
      Reading(20, 25, 85, 50),      \* just above freezing, saturated
      Reading(-10, -30, 50, 50),    \* below freezing
      Reading(-60, -80, 95, 30) }   \* hard frost

RawRow(date, hour, o) ==
    [date |-> date, hour |-> hour, temp_c |-> o.temp_c,
     dew_point_c |-> o.dew_point_c, humidity |-> o.humidity,
     wind_speed_kmh |-> o.wind_speed_kmh]

RawRows == {RawRow(d, h, o) : d \in Dates, h \in {7, 8}, o \in Readings}

Frames == UNION {[1 .. n -> RawRows] : n \in 0 .. MaxRows}

(***************************************************************************)
(* get_weather_data.  A response is the outcome of the request and, when   *)
(* it carries the hourly fields, the frame built from them.  Any exception *)
(* in the try block (connection error, raise_for_status, a missing hourly  *)
(* field) is reported with st.error and gives the empty frame.  The result *)
(* is drawn afresh on every run: st.cache_data can only repeat an earlier  *)
(* result for the same coordinates, which is one of the results drawn.     *)
(***************************************************************************)
FetchFailures == {"network_error", "http_error", "no_hourly_fields"}

MutFetchErrorSwallowed(resp) ==
    IF resp.outcome = "ok"
    THEN [frame |-> resp.hourly, errors |-> {}]
    ELSE [frame |-> <<>>, errors |-> {}]

get_weather_data(resp) ==
    IF resp.outcome = "ok"
    THEN [frame |-> resp.hourly, errors |-> {}]
    ELSE [frame |-> <<>>, errors |-> {"Error fetching weather"}]

SessionFrames ==
    { <<>>,
      <<RawRow(1, 7, Reading(20, 25, 85, 50)), RawRow(2, 7, Reading(50, 32, 92, 80))>>,
      <<RawRow(0, 7, Reading(50, 0, 60, 150)), RawRow(1, 8, Reading(-60, -80, 95, 30))>> }

ForecastResponses ==
    {[outcome |-> o, hourly |-> <<>>] : o \in FetchFailures}
    \cup {[outcome |-> "ok", hourly |-> f] : f \in SessionFrames}

(***************************************************************************)
(* get_coordinates_from_search.  The result is <<>> for (None, None, None) *)
(* and <<latitude, longitude, name>> otherwise; a name is the pair of the  *)
(* two parts of its f-string.  An optional field of a response is <<>>     *)
(* when absent.                                                            *)
(***************************************************************************)
NoCoordinates == <<>>

Queries == {<<>>, <<" ", "M", "1", " ", "1", "A", "E">>}

\* line 51: the characters of the model are letters, digits and the space
clean_query(query) == SelectSeq(query, LAMBDA c : c # " ")

PostcodeResponses ==
    { [outcome |-> o, latitude |-> 0, longitude |-> 0, postcode |-> "",
       admin_district |-> <<>>] : o \in {"timeout", "status_404", "no_result_key"} }
    \cup
    { [outcome |-> "ok", latitude |-> 5348, longitude |-> -224,
       postcode |-> "M1 1AE", admin_district |-> d] : d \in {<<>>, <<"Manchester">>} }

GeocodeResponses ==
    { [outcome |-> o, latitude |-> 0, longitude |-> 0, name |-> "", country |-> <<>>] :
        o \in {"timeout", "status_500", "no_results", "no_latitude_key"} }
    \cup
    { [outcome |-> "ok", latitude |-> 4885, longitude |-> 235,
       name |-> "Paris", country |-> <<"France">>],
      [outcome |-> "ok", latitude |-> 0, longitude |-> 3258,
       name |-> "Equator", country |-> <<>>] }

OrElse(opt, default) == IF opt = <<>> THEN default ELSE opt[1]

\* lines 50-57
postcode_lookup(pc) ==
    IF pc.outcome = "ok"
    THEN <<pc.latitude, pc.longitude, <<pc.postcode, OrElse(pc.admin_district, "UK")>>>>
    ELSE NoCoordinates

\* lines 59-71
geocode_lookup(geo) ==
    IF geo.outcome = "ok"
    THEN <<geo.latitude, geo.longitude, <<geo.name, OrElse(geo.country, "")>>>>
    ELSE NoCoordinates

get_coordinates_from_search(pc, geo) ==
    IF postcode_lookup(pc) # NoCoordinates THEN postcode_lookup(pc)
    ELSE IF geocode_lookup(geo) # NoCoordinates THEN geocode_lookup(geo)
    ELSE NoCoordinates

\* the requests of one call, in order: the second only after the first
\* returned nothing
search_requests(query, pc) ==
    IF postcode_lookup(pc) # NoCoordinates
    THEN <<[service |-> "postcodes.io", arg |-> clean_query(query)]>>
    ELSE <<[service |-> "postcodes.io", arg |-> clean_query(query)],
           [service |-> "geocoding-api", arg |-> query]>>

\* line 137, "if lat:": None and 0.0 are both false
Truthy(x) == x # 0

(***************************************************************************)
(* The ipapi.co response of "Use My Current Location".  A field is absent  *)
(* (None), a text that float() rejects, or a number.                       *)
(***************************************************************************)
Absent == [kind |-> "none", val |-> 0]
Number(n) == [kind |-> "num", val |-> n]

\* float(x) raises for None and for a non-numeric text
FloatRaises(f) == f.kind # "num"

IpResponses ==
    { [outcome |-> o, latitude |-> Absent, longitude |-> Absent,
       city |-> "None", country_name |-> "None"] : o \in {"timeout", "not_json"} }
    \cup
    { [outcome |-> "json", latitude |-> la, longitude |-> lo,
       city |-> "Paris", country_name |-> "France"] :
        la \in {Absent, Number(4885)},
        lo \in {Absent, [kind |-> "text", val |-> 0], Number(0), Number(235)} }

(***************************************************************************)
(* Initial states.                                                         *)
(***************************************************************************)
\* lines 122-125, before the first run has rendered anything
InitSession ==
    /\ latitude = 5150
    /\ longitude = -12
    /\ location_name = <<"London", "UK">>
    /\ messages = {}
    /\ event = "none"
    /\ search_result = NoCoordinates
    /\ lookups = <<>>
    /\ lat = 5150
    /\ lon = -12
    /\ loc_name = <<"London", "UK">>
    /\ fetch = "not_requested"

InitFrame ==
    /\ today = 0
    /\ df_raw = <<>>
    /\ df = <<>>
    /\ morning_df = <<>>
    /\ headline = <<>>
    /\ cards = <<>>

InitObs ==
    /\ row = NoRow
    /\ risk_cols = Pending
    /\ total_delay = 0

Init ==
    /\ InitSession
    /\ InitFrame
    /\ InitObs
    /\ car_choice = "Compact / Hatchback"
    /\ phase = "start"

InitClassify ==
    /\ InitSession
    /\ InitFrame
    /\ row \in Observations
    /\ car_choice \in CarNames
    /\ risk_cols = Pending
    /\ total_delay = 0
    /\ phase = "observation"

InitRender ==
    /\ InitSession
    /\ InitObs
    /\ today \in Clock
    /\ df_raw \in Frames
    /\ car_choice \in CarNames
    /\ df = <<>>
    /\ morning_df = <<>>
    /\ headline = <<>>
    /\ cards = <<>>
    /\ phase = "frame"

(***************************************************************************)
(* SpecClassify: lines 166 and 173 on a single row.                        *)
(***************************************************************************)
Assess ==
    /\ phase = "observation"
    /\ LET a == calculate_frost_risk(row)
       IN  /\ risk_cols' = a
           /\ total_delay' = scaled_delay(a.base_minutes, car_choice)
    /\ phase' = "assessed"
    /\ UNCHANGED <<sessionVars, frameVars, car_choice, row>>

NextClassify == Assess

SpecClassify == InitClassify /\ [][NextClassify]_vars

(***************************************************************************)
(* The page built from a fetched frame, lines 165-232.                     *)
(***************************************************************************)
BuildPage(frame, car, now) ==
    /\ df_raw' = frame
    /\ IF frame # <<>>
       THEN LET d == classify_frame(frame, car)
                m == morning_rows(d)
            IN  /\ df' = d
                /\ morning_df' = m
                /\ headline' = headline_panel(m, now)
                /\ cards' = day_cards(m, now)
       ELSE /\ df' = <<>>
            /\ morning_df' = <<>>
            /\ headline' = <<>>
            /\ cards' = <<>>

RenderFrame ==
    /\ phase = "frame"
    /\ BuildPage(df_raw, car_choice, today)
    /\ phase' = "rendered"
    /\ UNCHANGED <<sessionVars, obsVars, car_choice, today>>

NextRender == RenderFrame

SpecRender == InitRender /\ [][NextRender]_vars

(***************************************************************************)
(* Spec: the runs of the script.  A run handles the widget that triggered  *)
(* it and then renders, lines 158-232, from the session state it leaves.   *)
(* After a successful lookup st.rerun() starts the script again with no    *)
(* button pressed, so the page shown is the render of the new location     *)
(* without the messages of the aborted run.                                *)
(***************************************************************************)
RenderPass(la, lo, name, car, msgs, resp, now) ==
    /\ lat' = la
    /\ lon' = lo
    /\ loc_name' = name
    /\ today' = now
    /\ IF Truthy(la) /\ Truthy(lo)
       THEN LET got == get_weather_data(resp)
            IN  /\ fetch' = resp.outcome
                /\ messages' = msgs \cup got.errors
                /\ BuildPage(got.frame, car, now)
       ELSE /\ fetch' = "not_requested"
            /\ messages' = msgs
            /\ BuildPage(<<>>, car, now)

\* the first run of a session
Open ==
    /\ phase = "start"
    /\ \E resp \in ForecastResponses, now \in Clock :
          RenderPass(latitude, longitude, location_name, car_choice, {}, resp, now)
    /\ event' = "open"
    /\ phase' = "page"
    /\ UNCHANGED <<latitude, longitude, location_name, car_choice,
                   search_result, lookups, obsVars>>

\* lines 134-143
SearchClick ==
    /\ phase = "page"
    /\ \E query \in Queries, resp \in ForecastResponses, now \in Clock :
          IF query = <<>>
          THEN /\ search_result' = NoCoordinates
               /\ lookups' = <<>>
               /\ UNCHANGED <<latitude, longitude, location_name>>
               /\ RenderPass(latitude, longitude, location_name, car_choice,
                             {}, resp, now)
          ELSE \E pc \in PostcodeResponses, geo \in GeocodeResponses :
               LET found == get_coordinates_from_search(pc, geo)
               IN  /\ search_result' = found
                   /\ lookups' = search_requests(query, pc)
                   /\ IF found # NoCoordinates /\ Truthy(found[1])
                      THEN /\ latitude' = found[1]
                           /\ longitude' = found[2]
                           /\ location_name' = found[3]
                           /\ RenderPass(found[1], found[2], found[3], car_choice,
                                         {}, resp, now)
                      ELSE /\ UNCHANGED <<latitude, longitude, location_name>>
                           /\ RenderPass(latitude, longitude, location_name,
                                         car_choice, {"Not found."}, resp, now)
    /\ event' = "search"
    /\ UNCHANGED <<car_choice, phase, obsVars>>

\* lines 145-154: the three assignments run in order and the first
\* exception leaves the earlier ones in place
UseMyLocation ==
    /\ phase = "page"
    /\ \E ip \in IpResponses, resp \in ForecastResponses, now \in Clock :
          IF ip.outcome # "json" \/ FloatRaises(ip.latitude)
          THEN /\ UNCHANGED <<latitude, longitude, location_name>>
               /\ RenderPass(latitude, longitude, location_name, car_choice,
                             {"Could not detect location."}, resp, now)
          ELSE IF FloatRaises(ip.longitude)
          THEN /\ latitude' = ip.latitude.val
               /\ UNCHANGED <<longitude, location_name>>
               /\ RenderPass(ip.latitude.val, longitude, location_name, car_choice,
                             {"Could not detect location."}, resp, now)
          ELSE /\ latitude' = ip.latitude.val
               /\ longitude' = ip.longitude.val
               /\ location_name' = <<ip.city, ip.country_name>>
               /\ RenderPass(ip.latitude.val, ip.longitude.val,
                             <<ip.city, ip.country_name>>, car_choice, {}, resp, now)
    /\ event' = "locate"
    /\ UNCHANGED <<car_choice, search_result, lookups, phase, obsVars>>

\* line 156
SelectCar ==
    /\ phase = "page"
    /\ \E car \in CarNames, resp \in ForecastResponses, now \in Clock :
          /\ car_choice' = car
          /\ RenderPass(latitude, longitude, location_name, car, {}, resp, now)
    /\ event' = "car"
    /\ UNCHANGED <<latitude, longitude, location_name, search_result, lookups,
                   phase, obsVars>>

Next == Open \/ SearchClick \/ UseMyLocation \/ SelectCar

Spec == Init /\ [][Next]_vars

(***************************************************************************)
(* Properties.                                                             *)
(***************************************************************************)
Spread(r) == r.temp_c - r.dew_point_c
FrostGuard(r) == Spread(r) < 20 \/ (r.temp_c <= 0 /\ r.humidity > 80)
FogConditions(r) == Spread(r) < 25 /\ r.humidity > 90 /\ r.wind_speed_kmh < 100
Level(a) == <<a.risk, a.base_minutes, a.condition>>
Assessed == phase = "assessed"
Rendered == phase = "rendered"

\* C1: an observation at or below 3.0 C whose frost guard holds gets the
\* frost level chosen by temperature alone (Severe Ice below -5, Frost/Ice
\* from -5 to 0, Light Frost above 0), whatever the wind and the fog
\* conditions.
C1_FrostLevelByTemperature ==
    (Assessed /\ row.temp_c <= 30 /\ FrostGuard(row)) =>
        /\ row.temp_c < -50 => Level(risk_cols) = <<"Severe Ice", 15, "Hard Ice">>
        /\ (-50 <= row.temp_c /\ row.temp_c <= 0) =>
               Level(risk_cols) = <<"Frost/Ice", 10, "Icy">>
        /\ 0 < row.temp_c => Level(risk_cols) = <<"Light Frost", 5, "Frosty">>

C1_Witness ==
    /\ Assessed
    /\ row.temp_c <= 30
    /\ FrostGuard(row)
    /\ FogConditions(row)
    /\ risk_cols.risk = "Light Frost"

\* C2: above 3.0 C the result is Fog (2 minutes, Foggy) exactly when the
\* three fog conditions hold and None (0 minutes, Clear) otherwise.
C2_FogOrNoneAboveThree ==
    (Assessed /\ row.temp_c > 30) =>
        IF FogConditions(row)
        THEN Level(risk_cols) = <<"Fog", 2, "Foggy">>
        ELSE Level(risk_cols) = <<"None", 0, "Clear">>

C2_Witness ==
    /\ Assessed
    /\ row.temp_c > 30
    /\ FogConditions(row)
    /\ risk_cols.risk = "Fog"

\* C3 as claimed: at or below 3.0 C with a failed frost guard the fog check
\* is still made, so the result is Fog when the fog conditions hold and None
\* only when they fail.
C3_FogReachedAfterFailedGuard ==
    (Assessed /\ row.temp_c <= 30 /\ ~FrostGuard(row)) =>
        IF FogConditions(row)
        THEN risk_cols.risk = "Fog" /\ risk_cols.base_minutes = 2
        ELSE risk_cols.risk = "None"

\* C3 amended: at or below 3.0 C with a failed frost guard the result is
\* None (0 minutes, Clear), also when the fog conditions hold.
C3_NoneAfterFailedGuard ==
    (Assessed /\ row.temp_c <= 30 /\ ~FrostGuard(row)) =>
        Level(risk_cols) = <<"None", 0, "Clear">>

C3_Witness ==
    /\ Assessed
    /\ row.temp_c = 29
    /\ row.dew_point_c = 8
    /\ ~FrostGuard(row)
    /\ FogConditions(row)
    /\ risk_cols.risk = "None"

\* C4: every result is one of the five levels, with the condition and the
\* base minutes that belong to its risk.
C4_ClosedLevels ==
    Assessed =>
        Level(risk_cols) \in
            { <<"None", 0, "Clear">>, <<"Light Frost", 5, "Frosty">>,
              <<"Frost/Ice", 10, "Icy">>, <<"Severe Ice", 15, "Hard Ice">>,
              <<"Fog", 2, "Foggy">> }

C4_Witness ==
    /\ Assessed
    /\ risk_cols.risk = "Frost/Ice"
    /\ risk_cols.base_minutes = 10
    /\ ~FogConditions(row)

Product == risk_cols.base_minutes * CAR_TYPES[car_choice]

\* C5 as claimed: total_delay is the integer nearest to base_minutes times
\* the factor, an exact half going up.
C5_NearestHalfUp ==
    Assessed =>
        /\ 10 * total_delay - Product <= 5
        /\ 10 * total_delay - Product > -5

\* C5 amended: total_delay is the integer nearest to base_minutes times the
\* factor, an exact half going to the even neighbour (7.5 gives 8, 22.5
\* gives 22).
C5_NearestHalfEven ==
    Assessed =>
        /\ 10 * total_delay - Product <= 5
        /\ 10 * total_delay - Product >= -5
        /\ (10 * total_delay - Product) \in {5, -5} => total_delay % 2 = 0
        /\ Product = 150 => total_delay = 15
        /\ Product = 40 => total_delay = 4
        /\ Product = 75 => total_delay = 8
        /\ Product = 225 => total_delay = 22

C5_Witness ==
    /\ Assessed
    /\ risk_cols.base_minutes = 15
    /\ car_choice = "Van / Truck"
    /\ total_delay = 22

\* C6: a run that ends in "Not found." or "Could not detect location."
\* leaves session latitude, longitude and location_name as they were.
C6_FailedAttemptKeepsLocation ==
    [][("Not found." \in messages' \/ "Could not detect location." \in messages')
          => UNCHANGED <<latitude, longitude, location_name>>]_vars

\* C7: after a search, the first lookup that yields coordinates sets the
\* session location, latitude 0 included, and "Not found." is shown only
\* when no lookup yielded anything.
C7_FirstYieldSetsLocation ==
    (event = "search" /\ lookups # <<>>) =>
        /\ "Not found." \in messages => search_result = NoCoordinates
        /\ search_result # NoCoordinates =>
               <<latitude, longitude, location_name>> = search_result

\* C8: with a non-empty frame the day cards are the rows with hour 7, one
\* card each, and the headline is shown exactly when a row has hour 7 and
\* the date of tomorrow; it is then built from such a row.
C8_MorningRowsOnly ==
    (Rendered /\ df_raw # <<>>) =>
        LET M == {i \in DOMAIN df_raw : df_raw[i].hour = 7}
            T == {i \in M : df_raw[i].date = today + 1}
        IN  /\ Len(cards) = Cardinality(M)
            /\ {cards[k].index : k \in DOMAIN cards} = M
            /\ \A k \in DOMAIN cards :
                   /\ cards[k].date = df_raw[cards[k].index].date
                   /\ cards[k].temp_c = df_raw[cards[k].index].temp_c
            /\ headline # <<>> <=> T # {}
            /\ headline # <<>> => headline[1].index \in T

C8_Witness ==
    /\ Rendered
    /\ cards # <<>>
    /\ headline = <<>>
    /\ \E i \in DOMAIN df_raw : df_raw[i].hour = 8 /\ df_raw[i].date = today + 1
    /\ \E i \in DOMAIN df_raw : df_raw[i].hour = 7 /\ df_raw[i].date = today

\* C9: when the forecast request fails the error is shown, the frame is
\* empty, nothing is classified, scaled or rendered, and the session
\* location is the one the run started rendering with.
C9_FetchFailureSkipsProcessing ==
    fetch \in FetchFailures =>
        /\ "Error fetching weather" \in messages
        /\ df_raw = <<>>
        /\ df = <<>>
        /\ morning_df = <<>>
        /\ headline = <<>>
        /\ cards = <<>>
        /\ <<latitude, longitude, location_name>> = <<lat, lon, loc_name>>

C9_Witness ==
    /\ fetch = "no_hourly_fields"
    /\ event = "search"
    /\ latitude = 5348
    /\ "Error fetching weather" \in messages
    /\ df = <<>>

====
